---- MODULE Spec2Model ----
(***************************************************************************)
(* Model of src/main.py: midi_to_artistic and the five style renderers.    *)
(*                                                                         *)
(* Time is counted in whole time units (a unit is a power-of-two fraction  *)
(* of a second), so the float additions and subtractions of the source     *)
(* are exact.  A y coordinate is kept as its numerator over note_range     *)
(* (field den of a draw call): y = yn / den, exactly.  int(...) of a       *)
(* non-negative quotient is \div; for the times, widths and velocities     *)
(* used here the float results of the source equal the exact ones.         *)
(* Colors are <<r, g, b>>; vel_ratio = velocity/127 is kept as a fraction. *)
(***************************************************************************)
EXTENDS Integers, Sequences, FiniteSets, TLC

\* ---------------------------------------------------------------- bounds
MaxMsgs == 4        \* longest decoded stream
MaxMsgsShort == 2   \* longest decoded stream where the configuration varies

Pitches == {60, 64}
Velocities == {0, 10, 25}
Deltas == {0, 1}

\* random.randint(-10, 10), random.randint(-30, 30), random.randint(1, 5):
\* the two ends of each range.
WatercolorOffsets == {-10, 10}
ParticleOffsets == {-30, 30}
ParticleSizes == {1, 5}

NamedStyles == {"classic", "watercolor", "neon", "particles", "geometric"}
NamedPalettes ==
    {"hsv", "ocean", "forest", "sunset", "pastel", "grayscale", "fire", "ice"}
Styles == NamedStyles \cup {"sketch"}
Palettes == NamedPalettes \cup {"rainbow"}

None == <<>>

VARIABLES
    \* parameters of midi_to_artistic
    img_width, img_height, bg_color, style, palette, enable_vinhetas, blur_radius,
    \* the decoded stream
    stream_len,      \* number of messages the decoder yields
    nread,           \* messages yielded so far
    stream_time,     \* sum of the time deltas of the messages yielded so far
                     \* (the stream's own clock, not a variable of the code)
    \* locals of midi_to_artistic
    pc, current_time, active_notes, events, ei, music_notes,
    total_duration, min_note, max_note, note_range,
    \* rendering
    renderer,        \* the create_*_style function that was called
    img,             \* the canvas: None or [width, height, bg]
    ni,              \* notes drawn so far
    draws,           \* the draw calls of the latest loop iteration
    smoothed, blurred, vignetted, saved,
    returned         \* the returned image, None before the return

params == <<img_width, img_height, bg_color, style, palette, enable_vinhetas,
            blur_radius>>
stream == <<stream_len, nread, stream_time>>
builder == <<current_time, active_notes, events, ei, music_notes>>
extents == <<total_duration, min_note, max_note, note_range>>
render == <<renderer, img, ni, draws, smoothed>>
post == <<blurred, vignetted, saved, returned>>
vars == <<params, stream, pc, builder, extents, render, post>>

\* ------------------------------------------------------------- messages
Messages ==
    [type : {"note_on"}, note : Pitches, velocity : Velocities, time : Deltas,
     is_meta : {FALSE}]
    \cup [type : {"note_off"}, note : Pitches, velocity : {0}, time : Deltas,
          is_meta : {FALSE}]
    \cup [type : {"control_change"}, note : {0}, velocity : {0}, time : Deltas,
          is_meta : {FALSE}]
    \cup [type : {"set_tempo"}, note : {0}, velocity : {0}, time : Deltas,
          is_meta : {TRUE}]

\* current_time += msg.time, for non-meta messages only
AdvanceTime(t, msg) == IF ~msg.is_meta THEN t + msg.time ELSE t

\* the events one message appends
EventsOf(t, msg) ==
    IF msg.is_meta THEN <<>>
    ELSE IF msg.type = "note_on" /\ msg.velocity > 0
         THEN << <<t, msg.note, msg.velocity, "start">> >>
    ELSE IF msg.type = "note_off" \/ (msg.type = "note_on" /\ msg.velocity = 0)
         THEN << <<t, msg.note, 0, "end">> >>
    ELSE <<>>

\* one iteration of "for msg in mid"
Decode(msg) ==
    /\ pc = "decode"
    /\ nread < stream_len
    /\ nread' = nread + 1
    /\ stream_time' = stream_time + msg.time
    /\ current_time' = AdvanceTime(current_time, msg)
    /\ events' = events \o EventsOf(current_time', msg)
    /\ UNCHANGED <<params, stream_len, pc, active_notes, ei, music_notes,
                   extents, render, post>>

\* the stream is exhausted
DecodeEnd ==
    /\ pc = "decode"
    /\ nread = stream_len
    /\ pc' = "pair"
    /\ UNCHANGED <<params, stream, builder, extents, render, post>>

\* ------------------------------------------------------ interval builder
\* mutant: zero-length intervals are kept
KeepsInterval_NonNegative(duration) == duration >= 0

\* "if duration > 0"
KeepsInterval(duration) == duration > 0

\* mutant: a NoteEnd leaves the pending start in place
ActiveAfter_NoPop(active, ev) ==
    IF ev[4] = "start" THEN [active EXCEPT ![ev[2]] = <<ev[1], ev[3]>>]
    ELSE active

\* mutant: a restrike keeps the earlier pending start
ActiveAfter_FirstWins(active, ev) ==
    IF ev[4] = "start"
    THEN IF active[ev[2]] = None
         THEN [active EXCEPT ![ev[2]] = <<ev[1], ev[3]>>]
         ELSE active
    ELSE IF ev[4] = "end" /\ active[ev[2]] # None
         THEN [active EXCEPT ![ev[2]] = None]
    ELSE active

\* active_notes after one event
ActiveAfter(active, ev) ==
    IF ev[4] = "start" THEN [active EXCEPT ![ev[2]] = <<ev[1], ev[3]>>]
    ELSE IF ev[4] = "end" /\ active[ev[2]] # None
         THEN [active EXCEPT ![ev[2]] = None]
    ELSE active

\* mutant: active_notes.pop(note, (0, 0)) without the membership test
NotesOf_PopDefault(active, ev) ==
    IF ev[4] = "end"
    THEN LET pending == IF active[ev[2]] # None THEN active[ev[2]] ELSE <<0, 0>>
             duration == ev[1] - pending[1]
         IN  IF duration > 0
             THEN << <<ev[2], pending[1], duration, pending[2]>> >>
             ELSE <<>>
    ELSE <<>>

\* the intervals one event appends to music_notes
NotesOf(active, ev) ==
    IF ev[4] = "end" /\ active[ev[2]] # None
    THEN LET start_time == active[ev[2]][1]
             vel == active[ev[2]][2]
             duration == ev[1] - start_time
         IN  IF KeepsInterval(duration)
             THEN << <<ev[2], start_time, duration, vel>> >>
             ELSE <<>>
    ELSE <<>>

\* one iteration of "for time, note, velocity, typ in events"
PairStep ==
    /\ pc = "pair"
    /\ ei < Len(events)
    /\ ei' = ei + 1
    /\ active_notes' = ActiveAfter(active_notes, events[ei'])
    /\ music_notes' = music_notes \o NotesOf(active_notes, events[ei'])
    /\ UNCHANGED <<params, stream, pc, current_time, events, extents, render,
                   post>>

\* mutant: the size tuple is built as (height, width)
BlankCanvas_Swapped(w, h, bg) == [width |-> h, height |-> w, bg |-> bg]

\* Image.new('RGB', (img_width, img_height), bg_color)
BlankCanvas(w, h, bg) == [width |-> w, height |-> h, bg |-> bg]

\* "if not music_notes: return Image.new(...)"
ReturnBlank ==
    /\ pc = "pair"
    /\ ei = Len(events)
    /\ music_notes = <<>>
    /\ returned' = BlankCanvas(img_width, img_height, bg_color)
    /\ pc' = "done"
    /\ UNCHANGED <<params, stream, builder, extents, render, blurred, vignetted,
                   saved>>

\* ------------------------------------------------------ scene normalizer
RECURSIVE SeqMax(_), SeqMin(_)
SeqMax(s) ==
    IF Len(s) = 1 THEN s[1]
    ELSE LET m == SeqMax(Tail(s)) IN IF s[1] > m THEN s[1] ELSE m
SeqMin(s) ==
    IF Len(s) = 1 THEN s[1]
    ELSE LET m == SeqMin(Tail(s)) IN IF s[1] < m THEN s[1] ELSE m

Max2(a, b) == IF a > b THEN a ELSE b
Min2(a, b) == IF a < b THEN a ELSE b

\* max(n[1] + n[2] for n in music_notes) or 1
TotalDuration(notes) ==
    LET m == SeqMax([i \in 1..Len(notes) |-> notes[i][2] + notes[i][3]])
    IN  IF m = 0 THEN 1 ELSE m

MinNote(notes) == SeqMin([i \in 1..Len(notes) |-> notes[i][1]])
MaxNote(notes) == SeqMax([i \in 1..Len(notes) |-> notes[i][1]])

\* mutant: the range is not floored at 1
NoteRange_NoFloor(lo, hi) == hi - lo

\* max(max_note - min_note, 1)
NoteRange(lo, hi) == Max2(hi - lo, 1)

Normalize ==
    /\ pc = "pair"
    /\ ei = Len(events)
    /\ music_notes # <<>>
    /\ total_duration' = TotalDuration(music_notes)
    /\ min_note' = MinNote(music_notes)
    /\ max_note' = MaxNote(music_notes)
    /\ note_range' = NoteRange(min_note', max_note')
    /\ pc' = "dispatch"
    /\ UNCHANGED <<params, stream, builder, render, post>>

\* --------------------------------------------------------- color mapper
\* note_names[note % 12][0]
BaseNote(note) ==
    <<"C", "C", "D", "D", "E", "F", "F", "G", "G", "A", "A", "B">>[(note % 12) + 1]

Ocean(letter) ==
    CASE letter = "C" -> <<20, 60, 130>>   [] letter = "D" -> <<40, 120, 180>>
      [] letter = "E" -> <<70, 170, 210>>  [] letter = "F" -> <<100, 190, 200>>
      [] letter = "G" -> <<120, 200, 190>> [] letter = "A" -> <<150, 210, 170>>
      [] letter = "B" -> <<180, 220, 150>> [] OTHER -> <<200, 200, 200>>

Forest(letter) ==
    CASE letter = "C" -> <<30, 70, 40>>    [] letter = "D" -> <<50, 100, 60>>
      [] letter = "E" -> <<80, 130, 80>>   [] letter = "F" -> <<120, 160, 90>>
      [] letter = "G" -> <<160, 190, 100>> [] letter = "A" -> <<190, 210, 110>>
      [] letter = "B" -> <<210, 220, 120>> [] OTHER -> <<200, 200, 200>>

Sunset(letter) ==
    CASE letter = "C" -> <<180, 50, 70>>   [] letter = "D" -> <<200, 80, 60>>
      [] letter = "E" -> <<220, 110, 70>>  [] letter = "F" -> <<230, 140, 80>>
      [] letter = "G" -> <<240, 170, 90>>  [] letter = "A" -> <<250, 200, 120>>
      [] letter = "B" -> <<255, 230, 150>> [] OTHER -> <<255, 255, 200>>

\* tuple(int(c*255) for c in colorsys.hsv_to_rgb(k/12, sn/d, vn/d)):
\* i = int(6h) = k \div 2 and f = 6h - i = (k % 2)/2.
HsvToRgb255(k, sn, vn, d) ==
    LET i == (k \div 2) % 6
        f2 == k % 2
        v == (255 * vn) \div d
        p == (255 * vn * (d - sn)) \div (d * d)
        q == (255 * vn * (2 * d - sn * f2)) \div (2 * d * d)
        t == (255 * vn * (2 * d - sn * (2 - f2))) \div (2 * d * d)
    IN  IF sn = 0 THEN <<v, v, v>>
        ELSE CASE i = 0 -> <<v, t, p>> [] i = 1 -> <<q, v, p>>
               [] i = 2 -> <<p, v, t>> [] i = 3 -> <<p, q, v>>
               [] i = 4 -> <<t, p, v>> [] OTHER -> <<v, p, q>>

\* tuple(int(c * num/den) for c in base_color)
Scale(base, num, den) == [j \in 1..3 |-> (base[j] * num) \div den]

\* the color of an unrecognized palette
DefaultColor == <<200, 200, 200>>

\* get_color(note, velocity), closed over palette; vel_ratio = velocity/127
get_color(pal, note, velocity) ==
    LET heat == 381 + 7 * velocity        \* (vel_ratio*0.7 + 0.3) * 1270
    IN
    CASE pal = "hsv" ->
           HsvToRgb255(note % 12, 889 + 3 * velocity, 762 + 4 * velocity, 1270)
      [] pal = "ocean" -> Scale(Ocean(BaseNote(note)), 127 + velocity, 254)
      [] pal = "forest" -> Scale(Forest(BaseNote(note)), 762 + 4 * velocity, 1270)
      [] pal = "sunset" ->
           LET c == Scale(Sunset(BaseNote(note)), 127 + velocity, 254)
           IN  [j \in 1..3 |-> Min2(255, c[j])]
      [] pal = "pastel" -> HsvToRgb255(note % 12, 3, 9, 10)
      [] pal = "grayscale" ->
           LET g == (50 * 127 + 205 * velocity) \div 127 IN <<g, g, g>>
      [] pal = "fire" ->
           IF 2 * heat < 1270
           THEN <<(510 * heat) \div 1270, (200 * heat) \div 1270, 0>>
           ELSE <<255, (127000 + 310 * (heat - 635)) \div 1270,
                  (200 * (heat - 635)) \div 1270>>
      [] pal = "ice" ->
           <<(200 * heat) \div 1270, (230 * heat) \div 1270,
             (255 * heat) \div 1270>>
      [] OTHER -> DefaultColor

\* -------------------------------------------------------- style dispatch
\* mutant: no else branch, an unknown style selects no renderer
RendererOf_NoFallback(s) == IF s \in NamedStyles THEN s ELSE "none"

\* the if/elif chain on style
RendererOf(s) ==
    CASE s = "watercolor" -> "watercolor"
      [] s = "neon" -> "neon"
      [] s = "particles" -> "particles"
      [] s = "geometric" -> "geometric"
      [] OTHER -> "classic"

\* the fill of Image.new in each create_*_style
Background(r) ==
    CASE r = "watercolor" -> <<240, 240, 235>>
      [] r = "neon" -> <<0, 0, 0>>
      [] r = "particles" -> <<10, 10, 20>>
      [] r = "geometric" -> <<250, 250, 245>>
      [] OTHER -> <<20, 20, 30>>

Dispatch ==
    /\ pc = "dispatch"
    /\ renderer' = RendererOf(style)
    /\ img' = [width |-> img_width, height |-> img_height,
               bg |-> Background(renderer')]
    /\ pc' = "render"
    /\ UNCHANGED <<params, stream, builder, extents, ni, draws, smoothed, post>>

\* ------------------------------------------------------ style renderers
\* mutant: time is scaled by the height
TimeToX_ByHeight(t) == (t * img.height) \div total_duration

\* int((t / total_duration) * width)
TimeToX(t) == (t * img.width) \div total_duration

\* int(((start + duration/2) / total_duration) * width)
MidToX(start, duration) ==
    ((2 * start + duration) * img.width) \div (2 * total_duration)

\* mutant: higher pitches are placed further down
PitchToY_Down(note, top, span) == top * note_range + (note - min_note) * span

\* top - ((note - min_note) / note_range) * span, as a numerator over
\* note_range: top is the y of min_note, span the height the pitches are
\* spread over.
PitchToY(note, top, span) == top * note_range - (note - min_note) * span

Call(shape, pts, fill, width) ==
    [shape |-> shape, pts |-> pts, den |-> note_range, fill |-> fill,
     width |-> width]

\* y + k pixels, on the numerator
Px(k) == k * note_range

\* classic: draw.rectangle([x1, y1, x2, y2]) with y2 = y1 - 20
ClassicCalls(n) ==
    LET x1 == TimeToX(n[2])
        x2 == TimeToX(n[2] + n[3])
        y1 == PitchToY(n[1], img.height, img.height - 50)
        y2 == y1 - Px(20)
    IN  << Call("rectangle", << <<x1, y1>>, <<x2, y2>> >>,
                get_color(palette, n[1], n[4]), 0) >>

\* min(255, int(30 * (1 - r/10) * 255))
GlowAlpha(r) == Min2(255, 765 * (10 - r))

\* neon: ten glow lines, r = 10 .. 1, then the 3px core line
NeonCalls(n) ==
    LET x1 == TimeToX(n[2])
        x2 == TimeToX(n[2] + n[3])
        y == PitchToY(n[1], img.height, img.height - 50)
        color == get_color(palette, n[1], n[4])
        line == << <<x1, y>>, <<x2, y>> >>
    IN  [j \in 1..10 |->
            Call("line", line, color \o <<GlowAlpha(11 - j)>>, (11 - j) * 2)]
        \o << Call("line", line, color, 3) >>

\* geometric: the shape is chosen by note % 3
GeometricCalls(n) ==
    LET x1 == TimeToX(n[2])
        x2 == TimeToX(n[2] + n[3])
        y == PitchToY(n[1], img.height, img.height - 50)
        color == get_color(palette, n[1], n[4])
    IN  IF n[1] % 3 = 0
        THEN << Call("rectangle",
                     << <<x1, y - Px(15)>>, <<x2, y + Px(15)>> >>, color, 0) >>
        ELSE IF n[1] % 3 = 1
        THEN << Call("polygon",
                     << <<x1, y>>, <<x2, y - Px(20)>>, <<x2, y + Px(20)>> >>,
                     color, 0) >>
        ELSE << Call("ellipse",
                     << <<x1, y - Px(15)>>, <<x2, y + Px(15)>> >>, color, 0) >>

\* watercolor: three ellipses, offs[i] the random offset of layer i
WatercolorCalls(n, offs) ==
    LET x1 == TimeToX(n[2])
        x2 == TimeToX(n[2] + n[3])
        y == PitchToY(n[1], img.height - 50, img.height - 100)
        color == get_color(palette, n[1], n[4])
    IN  [i \in 1..3 |->
            Call("ellipse",
                 << <<x1 + offs[i], y - Px(20) + Px(offs[i])>>,
                    <<x2 + offs[i], y + Px(20) + Px(offs[i])>> >>, color, 0)]

\* int(vel / 10)
ParticleCount(vel) == vel \div 10

\* particles: rnd[i] = <<dx, dy, size>> of particle i
ParticleCalls(n, rnd) ==
    LET x == MidToX(n[2], n[3])
        y == PitchToY(n[1], img.height, img.height - 50)
        color == get_color(palette, n[1], n[4])
    IN  [i \in 1..ParticleCount(n[4]) |->
            LET px == x + rnd[i][1]
                py == y + Px(rnd[i][2])
                size == rnd[i][3]
            IN  Call("ellipse",
                     << <<px - size, py - Px(size)>>,
                        <<px + size, py + Px(size)>> >>, color, 0)]

\* one iteration of "for note, start, duration, vel in notes"
DrawNote(r, calls) ==
    /\ pc = "render"
    /\ renderer = r
    /\ ni < Len(music_notes)
    /\ ni' = ni + 1
    /\ draws' = calls
    /\ UNCHANGED <<params, stream, pc, builder, extents, renderer, img, smoothed,
                   post>>

ClassicNote ==
    /\ pc = "render"
    /\ ni < Len(music_notes)
    /\ DrawNote("classic", ClassicCalls(music_notes[ni + 1]))

NeonNote ==
    /\ pc = "render"
    /\ ni < Len(music_notes)
    /\ DrawNote("neon", NeonCalls(music_notes[ni + 1]))

GeometricNote ==
    /\ pc = "render"
    /\ ni < Len(music_notes)
    /\ DrawNote("geometric", GeometricCalls(music_notes[ni + 1]))

WatercolorNote ==
    /\ pc = "render"
    /\ ni < Len(music_notes)
    /\ \E offs \in [1..3 -> WatercolorOffsets] :
          DrawNote("watercolor", WatercolorCalls(music_notes[ni + 1], offs))

ParticleNote ==
    /\ pc = "render"
    /\ ni < Len(music_notes)
    /\ \E rnd \in [1..ParticleCount(music_notes[ni + 1][4]) ->
                     ParticleOffsets \X ParticleOffsets \X ParticleSizes] :
          DrawNote("particles", ParticleCalls(music_notes[ni + 1], rnd))

\* the renderer returns; watercolor returns img.filter(SMOOTH_MORE)
RenderReturn ==
    /\ pc = "render"
    /\ ni = Len(music_notes)
    /\ smoothed' = (renderer = "watercolor")
    /\ pc' = "blur"
    /\ UNCHANGED <<params, stream, builder, extents, renderer, img, ni, draws,
                   post>>

\* ------------------------------------------------------- post-processing
\* "if blur_radius > 0: img = img.filter(GaussianBlur)"
ApplyBlur ==
    /\ pc = "blur"
    /\ blurred' = (blur_radius > 0)
    /\ pc' = "vignette"
    /\ UNCHANGED <<params, stream, builder, extents, render, vignetted, saved,
                   returned>>

\* "if enable_vinhetas: img = apply_vignette(img, effect_intensity)"
ApplyVignette ==
    /\ pc = "vignette"
    /\ vignetted' = enable_vinhetas
    /\ pc' = "save"
    /\ UNCHANGED <<params, stream, builder, extents, render, blurred, saved,
                   returned>>

\* "img.save(output_path, quality=95); return img"
Save ==
    /\ pc = "save"
    /\ saved' = TRUE
    /\ returned' = img
    /\ pc' = "done"
    /\ UNCHANGED <<params, stream, builder, extents, render, blurred, vignetted>>

\* --------------------------------------------------------- specification
DefaultBg == <<15, 15, 25>>

Start ==
    /\ bg_color = DefaultBg
    /\ nread = 0
    /\ stream_time = 0
    /\ pc = "decode"
    /\ current_time = 0
    /\ active_notes = [p \in Pitches |-> None]
    /\ events = <<>>
    /\ ei = 0
    /\ music_notes = <<>>
    /\ total_duration = 0
    /\ min_note = 0
    /\ max_note = 0
    /\ note_range = 0
    /\ renderer = "none"
    /\ img = None
    /\ ni = 0
    /\ draws = <<>>
    /\ smoothed = FALSE
    /\ blurred = FALSE
    /\ vignetted = FALSE
    /\ saved = FALSE
    /\ returned = None

\* defaults of midi_to_artistic; blur_radius is counted in half pixels
DefaultWidth == 2000
DefaultHeight == 500
DefaultBlur == 1

\* The default configuration.  The classic renderer is run on streams of up
\* to MaxMsgs messages, every other style on streams of up to MaxMsgsShort.
Init ==
    /\ Start
    /\ \/ style = "classic" /\ stream_len \in 0..MaxMsgs
       \/ style \in Styles \ {"classic"} /\ stream_len \in 0..MaxMsgsShort
    /\ palette = "hsv"
    /\ img_width = DefaultWidth
    /\ img_height = DefaultHeight
    /\ enable_vinhetas = TRUE
    /\ blur_radius = DefaultBlur

\* Every style, palette and effect switch on a 1000 x 300 canvas, streams of
\* up to MaxMsgsShort messages.
InitCfg ==
    /\ Start
    /\ stream_len \in 0..MaxMsgsShort
    /\ style \in Styles
    /\ palette \in Palettes
    /\ img_width = DefaultWidth \div 2
    /\ img_height = DefaultHeight - 200
    /\ enable_vinhetas \in BOOLEAN
    /\ blur_radius \in {0, DefaultBlur}

Next ==
    \/ \E msg \in Messages : Decode(msg)
    \/ DecodeEnd
    \/ PairStep
    \/ ReturnBlank
    \/ Normalize
    \/ Dispatch
    \/ ClassicNote
    \/ NeonNote
    \/ GeometricNote
    \/ WatercolorNote
    \/ ParticleNote
    \/ RenderReturn
    \/ ApplyBlur
    \/ ApplyVignette
    \/ Save

Spec == Init /\ [][Next]_vars
SpecCfg == InitCfg /\ [][Next]_vars

\* ================================================================ claims
IsStart(e) == e[4] = "start"
IsEnd(e) == e[4] = "end"
Time(e) == e[1]
Pitch(e) == e[2]
Vel(e) == e[3]

\* the index of the latest event before k with the pitch of events[k], or 0
LastSame(k) ==
    LET same == {j \in 1..(k - 1) : Pitch(events[j]) = Pitch(events[k])}
    IN  IF same = {} THEN 0 ELSE CHOOSE j \in same : \A j2 \in same : j2 <= j

NotePitch(n) == n[1]
NoteStartT(n) == n[2]
NoteEndT(n) == n[2] + n[3]
NoteIdx == 1..Len(music_notes)

\* the builder is about to process the event events[ei + 1]
AtEvent == pc = "pair" /\ ei < Len(events)

Normalized == pc \in {"dispatch", "render", "blur", "vignette", "save"}
                 \/ (pc = "done" /\ music_notes # <<>>)
Dispatched == pc \in {"render", "blur", "vignette", "save"}
                 \/ (pc = "done" /\ music_notes # <<>>)

\* ---- C1
\* C1: after each step of the interval builder every interval of
\* music_notes has duration > 0, and the step that processes a NoteEnd
\* directly after a NoteStart of the same pitch and the same timestamp adds
\* no interval.
C1_PositiveDuration ==
    [][ /\ \A i \in 1..Len(music_notes') : music_notes'[i][3] > 0
        /\ ( /\ AtEvent
             /\ ei >= 1
             /\ IsStart(events[ei]) /\ IsEnd(events[ei + 1])
             /\ Pitch(events[ei]) = Pitch(events[ei + 1])
             /\ Time(events[ei]) = Time(events[ei + 1]) )
           => music_notes' = music_notes ]_vars

\* a zero-length start/end pair has just been processed, after an interval
\* had been emitted
C1_Witness ==
    /\ pc = "pair"
    /\ ei >= 2
    /\ IsStart(events[ei - 1]) /\ IsEnd(events[ei])
    /\ Pitch(events[ei - 1]) = Pitch(events[ei])
    /\ Time(events[ei - 1]) = Time(events[ei])
    /\ music_notes # <<>>

\* ---- C2
\* C2: the step that processes a NoteEnd whose pitch has no pending start
\* changes neither active_notes (for any pitch) nor music_notes, and the
\* loop goes on to the next event.
C2_UnmatchedEndIsNoOp ==
    [][ ( /\ AtEvent
          /\ IsEnd(events[ei + 1])
          /\ active_notes[Pitch(events[ei + 1])] = None )
        => /\ active_notes' = active_notes
           /\ music_notes' = music_notes
           /\ pc' = "pair"
           /\ ei' = ei + 1 ]_vars

\* a NoteEnd of a pitch that never started has just been processed at a
\* positive time, while another pitch is pending and an interval exists
C2_Witness ==
    /\ pc = "pair"
    /\ ei >= 1
    /\ IsEnd(events[ei])
    /\ Time(events[ei]) > 0
    /\ LastSame(ei) = 0
    /\ music_notes # <<>>
    /\ \E q \in Pitches : active_notes[q] # None

\* ---- C3
\* C3: when the two latest events of a pitch before a NoteEnd of that pitch
\* are both NoteStarts, the step that processes the NoteEnd appends at most
\* one interval, which starts at the time and carries the velocity of the
\* later NoteStart, and leaves the pitch without a pending start; and every
\* interval ever emitted pairs a NoteStart with the very next event of its
\* pitch, a NoteEnd, so an overwritten start produces none.
C3_LastStartWins ==
    [][ /\ ( /\ AtEvent
             /\ IsEnd(events[ei + 1])
             /\ LastSame(ei + 1) # 0
             /\ IsStart(events[LastSame(ei + 1)])
             /\ LastSame(LastSame(ei + 1)) # 0
             /\ IsStart(events[LastSame(LastSame(ei + 1))]) )
           => LET e == events[ei + 1]
                  last == events[LastSame(ei + 1)]
                  n == Len(music_notes)
              IN  /\ Len(music_notes') <= n + 1
                  /\ SubSeq(music_notes', 1, n) = music_notes
                  /\ Len(music_notes') = n + 1 =>
                        music_notes'[n + 1] =
                           <<Pitch(e), Time(last), Time(e) - Time(last), Vel(last)>>
                  /\ active_notes'[Pitch(e)] = None
        /\ \A i \in 1..Len(music_notes') :
              \E k \in 1..ei' :
                 /\ IsEnd(events'[k])
                 /\ LastSame(k)' # 0
                 /\ IsStart(events'[LastSame(k)'])
                 /\ music_notes'[i] =
                       <<Pitch(events'[k]), Time(events'[LastSame(k)']),
                         Time(events'[k]) - Time(events'[LastSame(k)']),
                         Vel(events'[LastSame(k)'])>> ]_vars

\* a NoteEnd has just closed a pitch struck twice, at different times and
\* velocities, and an interval was emitted
C3_Witness ==
    /\ pc = "pair"
    /\ ei >= 3
    /\ IsEnd(events[ei])
    /\ LastSame(ei) # 0
    /\ IsStart(events[LastSame(ei)])
    /\ LastSame(LastSame(ei)) # 0
    /\ IsStart(events[LastSame(LastSame(ei))])
    /\ Time(events[LastSame(LastSame(ei))]) < Time(events[LastSame(ei)])
    /\ Vel(events[LastSame(LastSame(ei))]) # Vel(events[LastSame(ei)])
    /\ Time(events[LastSame(ei)]) < Time(events[ei])
    /\ music_notes # <<>>
    /\ music_notes[Len(music_notes)][2] = Time(events[LastSame(ei)])

\* ---- C4
\* C4: once the extents are computed from a non-empty music_notes,
\* total_duration >= start + duration of every interval and is positive,
\* min_note <= every pitch, min_note and max_note are pitches of music_notes
\* bounding all of them, and note_range = max(max_note - min_note, 1) >= 1.
C4_Extents ==
    Normalized =>
        /\ \A i \in NoteIdx : total_duration >= NoteEndT(music_notes[i])
        /\ total_duration > 0
        /\ \A i \in NoteIdx : min_note <= NotePitch(music_notes[i])
        /\ \A i \in NoteIdx : max_note >= NotePitch(music_notes[i])
        /\ \E i \in NoteIdx : min_note = NotePitch(music_notes[i])
        /\ \E i \in NoteIdx : max_note = NotePitch(music_notes[i])
        /\ note_range >= 1
        /\ note_range = IF max_note - min_note > 1 THEN max_note - min_note ELSE 1
        /\ (\A i \in NoteIdx : NotePitch(music_notes[i]) = min_note) => note_range = 1

\* the extents of two intervals of one pitch, the first ending early
C4_Witness ==
    /\ pc = "dispatch"
    /\ Len(music_notes) = 2
    /\ min_note = max_note
    /\ note_range = 1
    /\ NoteEndT(music_notes[1]) < total_duration

\* ---- C5
\* C5: with an empty music_notes the pipeline never leaves the builder for a
\* later stage, and it ends having returned a canvas of img_width x
\* img_height filled with bg_color, with no extents computed, no renderer
\* called, nothing drawn, no smoothing, blur or vignette, and nothing saved.
C5_EmptyReturnsBlank ==
    music_notes = <<>> =>
        /\ pc \in {"decode", "pair", "done"}
        /\ total_duration = 0 /\ note_range = 0
        /\ renderer = "none" /\ img = None /\ draws = <<>> /\ ni = 0
        /\ ~smoothed /\ ~blurred /\ ~vignetted /\ ~saved
        /\ pc = "done" =>
              returned = [width |-> img_width, height |-> img_height,
                          bg |-> bg_color]
        /\ pc # "done" => returned = None

\* the blank canvas was returned for a stream with events, with blur and
\* vignette switched on
C5_Witness ==
    /\ pc = "done"
    /\ music_notes = <<>>
    /\ events # <<>>
    /\ blur_radius > 0
    /\ enable_vinhetas
    /\ returned # None

\* ---- C6
\* what the classic renderer passes to draw.rectangle for interval n
ClassicRectOf(n) ==
    LET y1 == img_height * note_range - (n[1] - min_note) * (img_height - 50)
    IN  << <<(n[2] * img_width) \div total_duration, y1>>,
           <<((n[2] + n[3]) * img_width) \div total_duration,
             y1 - 20 * note_range>> >>

\* C6: with a palette name outside the 8 named palettes every draw call is
\* filled with (200,200,200), and get_color returns (200,200,200) for every
\* pitch and velocity 0..127 (evaluated once per configuration, in its
\* initial state); with a style name outside the 5 named styles the classic
\* renderer is called, draws the classic rectangle of each interval, and the
\* pipeline goes through blur, vignette and save as the switches say.
C6_UnknownConfigFallsBack ==
    /\ palette \notin NamedPalettes =>
          /\ \A k \in 1..Len(draws) :
                SubSeq(draws[k].fill, 1, 3) = <<200, 200, 200>>
          /\ (pc = "decode" /\ nread = 0) =>
                \A n \in 0..127, v \in 0..127 :
                   get_color(palette, n, v) = <<200, 200, 200>>
    /\ style \notin NamedStyles =>
          /\ Dispatched =>
                /\ renderer = "classic"
                /\ img = [width |-> img_width, height |-> img_height,
                          bg |-> <<20, 20, 30>>]
                /\ ~smoothed
          /\ (pc = "render" /\ ni > 0) =>
                /\ Len(draws) = 1
                /\ draws[1].shape = "rectangle"
                /\ draws[1].pts = ClassicRectOf(music_notes[ni])
          /\ (pc = "done" /\ music_notes # <<>>) =>
                /\ saved
                /\ returned = img
                /\ blurred = (blur_radius > 0)
                /\ vignetted = enable_vinhetas

\* an unknown style and an unknown palette, rendered and saved
C6_Witness ==
    /\ style \notin NamedStyles
    /\ palette \notin NamedPalettes
    /\ pc = "done"
    /\ saved
    /\ draws # <<>>

\* ---- C7
\* every coordinate of every draw call lies within x in lo_x..hi_x and
\* y in lo_y..hi_y (pixels)
CoordsWithin(lo_x, hi_x, lo_y, hi_y) ==
    \A k \in 1..Len(draws) :
       \A j \in 1..Len(draws[k].pts) :
          /\ lo_x <= draws[k].pts[j][1]
          /\ draws[k].pts[j][1] <= hi_x
          /\ lo_y * draws[k].den <= draws[k].pts[j][2]
          /\ draws[k].pts[j][2] <= hi_y * draws[k].den

PitchY(n) == img_height * note_range - (n[1] - min_note) * (img_height - 50)

ClassicDrawn == pc = "render" /\ renderer = "classic" /\ ni > 0

\* C8 as claimed: the rectangle of an interval spans exactly
\* (start/total_duration)*width to ((start+duration)/total_duration)*width
\* and covers pitchToY(pitch)-10 to pitchToY(pitch)+10.
C8_ClassicCentered ==
    ClassicDrawn =>
        LET n == music_notes[ni]
            r == draws[1].pts
        IN  /\ Len(draws) = 1
            /\ draws[1].shape = "rectangle"
            /\ r[1][1] * total_duration = n[2] * img_width
            /\ r[2][1] * total_duration = (n[2] + n[3]) * img_width
            /\ {r[1][2], r[2][2]} =
                  {PitchY(n) - 10 * note_range, PitchY(n) + 10 * note_range}

\* C8 as amended: the rectangle of an interval spans the truncations to
\* whole pixels of (start/total_duration)*width and
\* ((start+duration)/total_duration)*width, and covers pitchToY(pitch)-20 to
\* pitchToY(pitch): 20px thick, its lower edge at pitchToY(pitch).
C8_ClassicRect ==
    ClassicDrawn =>
        LET n == music_notes[ni]
            r == draws[1].pts
        IN  /\ Len(draws) = 1
            /\ draws[1].shape = "rectangle"
            /\ r[1][1] = (n[2] * img_width) \div total_duration
            /\ r[2][1] = ((n[2] + n[3]) * img_width) \div total_duration
            /\ {r[1][2], r[2][2]} = {PitchY(n) - 20 * note_range, PitchY(n)}

\* the classic rectangle of a second interval, above the lowest pitch and
\* starting after time 0
C8_Witness ==
    /\ ClassicDrawn
    /\ ni = 2
    /\ music_notes[ni][1] > min_note
    /\ music_notes[ni][2] > 0

\* ---- C9
\* C9: the timestamp of every appended event is the sum of the time deltas
\* of all messages of the stream up to and including its message, and the
\* timestamps of events are non-decreasing.
C9_TimestampIsCumulative ==
    [][ Len(events') > Len(events) =>
           /\ Time(events'[Len(events')]) = stream_time'
           /\ \A k \in 1..Len(events) :
                 Time(events[k]) <= Time(events'[Len(events')]) ]_vars

\* ---- C10
\* C10: two distinct intervals of one pitch are disjoint in time; every
\* interval starts at the timestamp of a processed NoteStart of its pitch
\* and ends at the timestamp of a later processed NoteEnd of its pitch; a
\* pitch has no more intervals than processed NoteEnds; and no interval of a
\* pitch reaches beyond the time of a start still pending for it.
C10_IntervalsDisjoint ==
    /\ \A i \in NoteIdx, i2 \in NoteIdx :
          (i # i2 /\ NotePitch(music_notes[i]) = NotePitch(music_notes[i2])) =>
             \/ NoteEndT(music_notes[i]) <= NoteStartT(music_notes[i2])
             \/ NoteEndT(music_notes[i2]) <= NoteStartT(music_notes[i])
    /\ \A i \in NoteIdx :
          \E j \in 1..ei, k \in 1..ei :
             /\ j < k
             /\ IsStart(events[j]) /\ IsEnd(events[k])
             /\ Pitch(events[j]) = NotePitch(music_notes[i])
             /\ Pitch(events[k]) = NotePitch(music_notes[i])
             /\ Time(events[j]) = NoteStartT(music_notes[i])
             /\ Time(events[k]) = NoteEndT(music_notes[i])
    /\ \A p \in Pitches :
          Cardinality({i \in NoteIdx : NotePitch(music_notes[i]) = p})
             <= Cardinality({k \in 1..ei : IsEnd(events[k]) /\ Pitch(events[k]) = p})
    /\ \A p \in Pitches :
          active_notes[p] # None =>
             \A i \in NoteIdx :
                NotePitch(music_notes[i]) = p =>
                   NoteEndT(music_notes[i]) <= active_notes[p][1]

\* all events processed: two intervals of one pitch
C10_Witness ==
    /\ pc = "pair"
    /\ ei = Len(events)
    /\ Len(music_notes) = 2
    /\ NotePitch(music_notes[1]) = NotePitch(music_notes[2])

====
